---------------------------- MODULE Spec2Model ----------------------------
(***************************************************************************)
(* A model of the unstable backend of subxt                                *)
(* (src/subxt/src/backend/unstable/mod.rs).                                *)
(*                                                                         *)
(* Part 1 (SpecTx): the stream returned by submit_transaction, a poll_fn   *)
(* closure that merges the follow-event subscription `seen_blocks_sub`     *)
(* with the transaction-status subscription `tx_progress`.  One action is  *)
(* one pass through the body of the closure's `loop`.  What the two        *)
(* subscriptions and the clock answer when the pass asks them is an input  *)
(* of the pass: the driver of the follow stream and the node run on their  *)
(* own, so any answer may be ready at any pass; an event of the follow     *)
(* subscription that has become ready stays ready until a pass reads it.   *)
(*                                                                         *)
(* Part 2 (SpecOp): block_body and call, which start an operation and then *)
(* filter a follow-event subscription for its done event.                  *)
(*                                                                         *)
(* Part 3 (SpecChf): chain_head_follow.  Part 4 (SpecRt):                  *)
(* stream_runtime_version.  Part 5 (SpecPin): the builder and the block    *)
(* pinning of the stream it builds.  Part 6 (SpecSt):                      *)
(* storage_fetch_descendant_keys.  Part 7 (SpecHdr): stream_headers and    *)
(* the header streams made with it.  Part 8 (SpecEv): the events cache of  *)
(* a block (src/subxt/src/blocks/block_types.rs).  Part 9 (SpecLf):        *)
(* latest_finalized_block_ref.                                             *)
(***************************************************************************)
EXTENDS Naturals, Sequences, FiniteSets

VARIABLES
    \* ---- submit_transaction ----
    follow_ended,    \* the follow stream has ended: seen_blocks_sub yields None
    tx_ended,        \* the node has closed the transaction subscription
    seen_blocks,     \* HashMap: hash -> (marker, block_ref); the parent and the two times
                     \* of the tuple are only ever printed
    finalized_hash,  \* Option<Hash>, NoHash for None
    done,
    mem_log,         \* the statuses read from tx_progress, in order (the elapsed time
                     \* pushed with each is only ever printed)
    pc,              \* "idle": not being polled; "loop": inside the closure; "panicked"
    last,            \* inside the closure: "wait" after a pass that found nothing to do and
                     \* continued, else "run"; outside: what the last poll returned,
                     \* "Pending", "Item" (Some) or "End" (None); "panic" once panicked
                     \* for the time passed, "abort" once panicked at line 646
    out,             \* the items the stream has yielded, in order
    fin_seen,        \* history: hashes listed by the Finalized events seen_blocks_sub yielded
    follow_ready,    \* the follow subscription has an event ready for seen_blocks_sub
    stale,           \* history: hashes whose entry of seen_blocks holds a block ref
                     \* recorded before the last Stop event
    \* ---- block_body / call ----
    drv_log,         \* the events the driver has published, in order
    drv_ended,       \* the driver's follow stream has ended
    next_op,         \* the next operation id the server hands out
    req,             \* per request: its kind, where it is, the place in drv_log where it
                     \* subscribed and the place it has read to, the answer to its
                     \* start call, its operation id and its result
    \* ---- chain_head_follow ----
    chf,             \* per stream: where it is, the place in drv_log where it subscribed
                     \* and the place it has read to, and the items it has yielded
    \* ---- stream_runtime_version ----
    rt_runtimes,     \* HashMap: block hash -> the runtime announced with the block
    rt_log,          \* history: the follow events the stream's closure has been given
    rt_emit,         \* history: what the closure returned for each of them
    \* ---- builder and block pinning ----
    builder,         \* UnstableBackendBuilder: its max_block_life
    configured,      \* history: max_block_life() was called on the builder
    built,           \* build() has been called
    unpin_life,      \* the max_block_life the unpinning follow stream was made with
    rel_block_num,   \* the current finalized block number
    announced,       \* blocks 1..announced have been announced; block b has number b
    pinned,          \* the blocks that have an entry in the pinned set
    block_refs,      \* per block: the BlockRefs to it that consumers hold
    unpin_flags,     \* blocks whose last BlockRef was dropped, to be unpinned
    unpins,          \* history: per block, the unpin calls issued for it
    aged,            \* history: blocks unpinned when their age had reached unpin_life
    held,            \* history: blocks unpinned while a BlockRef to them was held
    rederived,       \* history: blocks a BlockRef was derived for again after the
                     \* last one had been dropped
    \* ---- storage_fetch_descendant_keys ----
    st_pc,           \* "new", "streaming", "done" (the sequence ended) or "failed"
    st_buf,          \* the items of the last batch that are still to be yielded
    st_out,          \* the items the result stream has yielded, in order
    st_recv,         \* history: the items of the batches received, batch after batch
    st_events,       \* history: the follow events read, counted
    st_waits,        \* history: the waiting-for-continue events read for the operation
    st_continues,    \* the continue calls issued
    st_done_seen,    \* history: the storage-done event of the operation was read
    \* ---- stream_headers ----
    hd_log,          \* the follow events the driver has published, each with the
                     \* subscription lifetime it belongs to
    hd_life,         \* the subscription lifetimes begun; lifetime n has subscription id n
    hd_kind,         \* "none", or which header stream was made: "all", "best", "finalized"
    hd_sub_id,       \* the subscription id the stream's closure captured
    hd_sub,          \* the number of events published when the stream subscribed
    hd_pos,          \* the number of events the stream has read
    hd_cur,          \* the block refs of the event last read that are still to be looked up
    hd_reqs,         \* history: the header requests issued, each with its answer
    hd_out,          \* the items the stream has yielded, in order
    hd_ended,        \* the driver's event stream has ended
    \* ---- Block::events ----
    ev_cache,        \* cached_events: "none" or "events"
    ev_lock,         \* the call that holds the lock of cached_events, or "none"
    ev_pc,           \* per call of events(): "new", "locking", "fetching" or "done"
    ev_res,          \* per call: what it returned, "none", "events" or "err"
    ev_fetches,      \* history: the outcomes of the fetches from the node, in order
    \* ---- latest_finalized_block_ref ----
    lf               \* per call: pc ("new", "waiting", "done"), sub and pos (the events
                     \* published when it subscribed, and those it has read), res

txVars == <<follow_ended, tx_ended, seen_blocks, finalized_hash, done, mem_log, pc, last,
            out, fin_seen, follow_ready, stale>>

opVars == <<drv_log, drv_ended, next_op, req>>

chVars == <<chf>>

rtVars == <<rt_runtimes, rt_log, rt_emit>>

pinVars == <<builder, configured, built, unpin_life, rel_block_num, announced, pinned, block_refs,
             unpin_flags, unpins, aged, held, rederived>>

stVars == <<st_pc, st_buf, st_out, st_recv, st_events, st_waits, st_continues, st_done_seen>>

hdVars == <<hd_log, hd_life, hd_kind, hd_sub_id, hd_sub, hd_pos, hd_cur, hd_reqs, hd_out,
            hd_ended>>

lfVars == <<lf>>

evVars == <<ev_cache, ev_lock, ev_pc, ev_res, ev_fetches>>

vars == <<txVars, opVars, chVars, rtVars, pinVars, stVars, hdVars, evVars, lfVars>>

(***************************************************************************)
(* Bounds.                                                                 *)
(***************************************************************************)
\* Items the transaction-status source produces in one run.
MaxTx == 2

HasTag(seq, t) == \E i \in DOMAIN seq : seq[i].tag = t

Hashes == {"B1", "B2"}

NoHash == "none"

(***************************************************************************)
(* Block references.  A reference handed out by the follow stream is       *)
(* pinned; BlockRef::from_hash builds one from the bare hash.              *)
(***************************************************************************)
PinnedRef(h) == [hash |-> h, pinned |-> TRUE]

FromHash(h) == [hash |-> h, pinned |-> FALSE]

NoRef == [hash |-> NoHash, pinned |-> FALSE]

ParentOf(h) == IF h = "B2" THEN "B1" ELSE "B0"

(***************************************************************************)
(* Follow events, as the subscription behind seen_blocks_sub yields them.  *)
(***************************************************************************)
EvInitialized(h) == [tag |-> "Initialized", refs |-> <<PinnedRef(h)>>]

EvNewBlock(h) == [tag |-> "NewBlock", refs |-> <<PinnedRef(h), PinnedRef(ParentOf(h))>>]

EvFinalized(hs) == [tag |-> "Finalized", refs |-> [i \in DOMAIN hs |-> PinnedRef(hs[i])]]

EvOther(t) == [tag |-> t, refs |-> <<>>]

OtherEvent ==
    {"BestBlockChanged", "OperationBodyDone", "OperationCallDone", "OperationStorageItems",
     "OperationWaitingForContinue", "OperationStorageDone", "OperationInaccessible",
     "OperationError", "Stop"}

FinalizedLists == {<<"B1">>, <<"B2">>, <<"B1", "B2">>}

FollowEvents ==
    {EvInitialized("B1")} \cup {EvNewBlock(h) : h \in Hashes}
        \cup {EvFinalized(hs) : hs \in FinalizedLists}
        \cup {EvOther(t) : t \in OtherEvent}

(***************************************************************************)
(* Raw transaction statuses (rpc_methods::TransactionStatus) and the items *)
(* tx_progress yields.                                                     *)
(***************************************************************************)
RawStatus(t, b, n, e) == [tag |-> t, block |-> b, num_peers |-> n, error |-> e]

RawValidated == RawStatus("Validated", NoHash, 0, "")

RawBroadcasted == RawStatus("Broadcasted", NoHash, 2, "")

RawBestChainBlockIncluded(b) == RawStatus("BestChainBlockIncluded", b, 0, "")

RawFinalized(b) == RawStatus("Finalized", b, 0, "")

RawDropped == RawStatus("Dropped", NoHash, 0, "dropped")

RawError == RawStatus("Error", NoHash, 0, "error")

RawInvalid == RawStatus("Invalid", NoHash, 0, "invalid")

\* Some(Err(e)): the subscription failed to produce or decode an item.
TxErr == RawStatus("Err", NoHash, 0, "rpc")

TxItems ==
    {RawValidated, RawBroadcasted, RawDropped, RawError, RawInvalid, TxErr}
        \cup {RawBestChainBlockIncluded(b) : b \in Hashes \cup {NoHash}}
        \cup {RawFinalized(b) : b \in Hashes}

(***************************************************************************)
(* Client-facing statuses (backend::TransactionStatus) and stream items.   *)
(***************************************************************************)
Status(t, r, n, m) == [tag |-> t, hash |-> r, num_peers |-> n, message |-> m]

ItemErr(e) == Status("Err", NoRef, 0, e)

(***************************************************************************)
(* seen_blocks_sub (lines 492-535): filter_map over the subscription's     *)
(* events.  The closure maps Initialized to None (it only notes the hash   *)
(* in FIN_BLOCK, which the diagnostic print alone reads), so the           *)
(* filter_map never yields one; every other event is yielded as a          *)
(* SeenBlock.                                                              *)
(***************************************************************************)
SeenBlockOf(ev) ==
    CASE ev.tag = "Initialized" -> [kind |-> "None", refs |-> <<>>]
      [] ev.tag = "NewBlock" -> [kind |-> "New", refs |-> ev.refs]
      [] ev.tag = "Finalized" -> [kind |-> "Finalized", refs |-> ev.refs]
      [] OTHER -> [kind |-> "Other", refs |-> <<>>]

\* lines 576-591: HashMap::insert replaces whatever entry the hash had.
InsertNew(m, block_ref) ==
    [h \in DOMAIN m \cup {block_ref.hash} |->
        IF h = block_ref.hash THEN [marker |-> "New", block_ref |-> block_ref] ELSE m[h]]

\* lines 598-606: entry().or_insert(..) keeps an entry that is there (and its
\* block ref), then the marker is set.
MarkFinalized(m, block_ref) ==
    [h \in DOMAIN m \cup {block_ref.hash} |->
        IF h = block_ref.hash
        THEN IF h \in DOMAIN m
             THEN [m[h] EXCEPT !.marker = "Finalized"]
             ELSE [marker |-> "Finalized", block_ref |-> block_ref]
        ELSE m[h]]

\* lines 593-611: the for loop over the event's finalized block refs.
RECURSIVE MarkAllFinalized(_, _)
MarkAllFinalized(m, refs) ==
    IF refs = <<>> THEN m ELSE MarkAllFinalized(MarkFinalized(m, Head(refs)), Tail(refs))

\* lines 575-616: the match on the SeenBlock the subscription yielded
\* (SeenBlock::Other is pushed on the diagnostic vector seen_other).
NoteSeenBlock(m, sb) ==
    CASE sb.kind = "New" -> InsertNew(m, sb.refs[1])
      [] sb.kind = "Finalized" -> MarkAllFinalized(m, sb.refs)
      [] OTHER -> m

\* A slip in lines 623-624: any entry for the target counts, whatever its marker.
FoundAnyEntry(m, hash) == hash \in DOMAIN m

\* lines 623-624: the target has an entry and the entry is marked finalized.
FoundFinalized(m, hash) == hash \in DOMAIN m /\ m[hash].marker = "Finalized"

\* lines 628-630: the status handed back once the target is found.
InFinalizedBlock(m, hash) == Status("InFinalizedBlock", m[hash].block_ref, 0, "")

\* A slip in lines 675-678: only an entry marked finalized gives its block ref.
BestBlockRefFinalizedOnly(m, hash) ==
    IF hash \in DOMAIN m /\ m[hash].marker = "Finalized"
    THEN m[hash].block_ref
    ELSE FromHash(hash)

\* lines 675-678: a pinned block ref if the hash is known, else one from the hash.
BestBlockRef(m, hash) == IF hash \in DOMAIN m THEN m[hash].block_ref ELSE FromHash(hash)

\* A slip in lines 693-696: the Invalid arm builds Validated.
TranslateSlip(m, ev) ==
    CASE ev.tag = "BestChainBlockIncluded" /\ ev.block # NoHash ->
            Status("InBestBlock", BestBlockRef(m, ev.block), 0, "")
      [] ev.tag = "BestChainBlockIncluded" /\ ev.block = NoHash ->
            Status("NoLongerInBestBlock", NoRef, 0, "")
      [] ev.tag = "Broadcasted" -> Status("Broadcasted", NoRef, ev.num_peers, "")
      [] ev.tag = "Dropped" -> Status("Dropped", NoRef, 0, ev.error)
      [] ev.tag = "Error" -> Status("Dropped", NoRef, 0, ev.error)
      [] ev.tag = "Invalid" -> Status("Validated", NoRef, 0, "")
      [] ev.tag = "Validated" -> Status("Validated", NoRef, 0, "")

\* A slip in lines 690-692: the Error arm builds Invalid.
TranslateErrorAsInvalid(m, ev) ==
    CASE ev.tag = "BestChainBlockIncluded" /\ ev.block # NoHash ->
            Status("InBestBlock", BestBlockRef(m, ev.block), 0, "")
      [] ev.tag = "BestChainBlockIncluded" /\ ev.block = NoHash ->
            Status("NoLongerInBestBlock", NoRef, 0, "")
      [] ev.tag = "Broadcasted" -> Status("Broadcasted", NoRef, ev.num_peers, "")
      [] ev.tag = "Dropped" -> Status("Dropped", NoRef, 0, ev.error)
      [] ev.tag = "Error" -> Status("Invalid", NoRef, 0, ev.error)
      [] ev.tag = "Invalid" -> Status("Invalid", NoRef, 0, ev.error)
      [] ev.tag = "Validated" -> Status("Validated", NoRef, 0, "")

\* lines 660-697: the match that maps a raw status to the client-facing one
\* (Finalized is handled by the caller: that arm continues the loop).
Translate(m, ev) ==
    CASE ev.tag = "BestChainBlockIncluded" /\ ev.block # NoHash ->
            Status("InBestBlock", BestBlockRef(m, ev.block), 0, "")
      [] ev.tag = "BestChainBlockIncluded" /\ ev.block = NoHash ->
            Status("NoLongerInBestBlock", NoRef, 0, "")
      [] ev.tag = "Broadcasted" -> Status("Broadcasted", NoRef, ev.num_peers, "")
      [] ev.tag = "Dropped" -> Status("Dropped", NoRef, 0, ev.error)
      [] ev.tag = "Error" -> Status("Dropped", NoRef, 0, ev.error)
      [] ev.tag = "Invalid" -> Status("Invalid", NoRef, 0, ev.error)
      [] ev.tag = "Validated" -> Status("Validated", NoRef, 0, "")

(***************************************************************************)
(* The environment of the stream.                                          *)
(***************************************************************************)
\* The follow subscription gets an event ready.  An event that arrives while the
\* stream is not being polled is found by the next poll just as one that arrives
\* right after the poll began, so arrivals are taken while the poll is passing.
FollowArrive ==
    /\ pc = "loop"
    /\ ~done
    /\ ~follow_ended
    /\ ~follow_ready
    /\ follow_ready' = TRUE
    /\ UNCHANGED <<follow_ended, tx_ended, seen_blocks, finalized_hash, done, pc, last, out,
                   fin_seen, mem_log, stale,
                   opVars, chVars, rtVars, pinVars, stVars, hdVars, evVars, lfVars>>

\* The follow stream ends: once the events that were ready are read,
\* seen_blocks_sub yields None.
FollowEnd ==
    /\ pc # "panicked"
    /\ ~follow_ended
    /\ ~follow_ready
    /\ follow_ended' = TRUE
    /\ UNCHANGED <<tx_ended, seen_blocks, finalized_hash, done, pc, last, out,
                   fin_seen, mem_log, follow_ready, stale,
                   opVars, chVars, rtVars, pinVars, stVars, hdVars, evVars, lfVars>>

\* The node closes the transaction subscription: tx_progress yields None.
TxEnd ==
    /\ pc # "panicked"
    /\ ~tx_ended
    /\ tx_ended' = TRUE
    /\ UNCHANGED <<follow_ended, seen_blocks, finalized_hash, done, pc, last, out,
                   fin_seen, mem_log, follow_ready, stale,
                   opVars, chVars, rtVars, pinVars, stVars, hdVars, evVars, lfVars>>

\* The consumer polls the stream.
Poll ==
    /\ pc = "idle"
    /\ pc' = "loop"
    /\ last' = "run"
    /\ UNCHANGED <<follow_ended, tx_ended, seen_blocks, finalized_hash, done, out,
                   fin_seen, mem_log, follow_ready, stale,
                   opVars, chVars, rtVars, pinVars, stVars, hdVars, evVars, lfVars>>

\* Items tx_progress has yielded so far: the statuses on mem_log and the errors.
TxRead == Len(mem_log) + Cardinality({i \in DOMAIN out : out[i].tag = "Err"})

(***************************************************************************)
(* tx_stream: one pass through the body of the closure's loop              *)
(* (lines 556-700).  The diagnostic vector seen_other and the statics       *)
(* FIN_BLOCK and PRUNED are only written here and read by the prints       *)
(* before the panic; they are left out.                                    *)
(***************************************************************************)
\* Past lines 558-571: not done (and the clock has not passed 240 seconds).
Passing == pc = "loop" /\ ~done

\* lines 558-566: more than 240 seconds have passed since `now`: print and panic.
LoopTimeout ==
    /\ pc = "loop"
    /\ pc' = "panicked"
    /\ last' = "panic"
    /\ UNCHANGED <<follow_ended, tx_ended, seen_blocks, finalized_hash, done, out,
                   fin_seen, mem_log, follow_ready, stale,
                   opVars, chVars, rtVars, pinVars, stVars, hdVars, evVars, lfVars>>

\* lines 568-571: bail early if done.
LoopDone ==
    /\ pc = "loop"
    /\ done
    /\ pc' = "idle"
    /\ last' = "End"
    /\ UNCHANGED <<follow_ended, tx_ended, seen_blocks, finalized_hash, done, out,
                   fin_seen, mem_log, follow_ready, stale,
                   opVars, chVars, rtVars, pinVars, stVars, hdVars, evVars, lfVars>>

\* lines 573-618: the subscription yields a SeenBlock; note it and continue.
LoopSeenBlock ==
    /\ Passing
    /\ follow_ready
    /\ follow_ready' = FALSE
    /\ \E ev \in FollowEvents :
        LET sb == SeenBlockOf(ev) IN
        /\ sb.kind # "None"
        /\ seen_blocks' = NoteSeenBlock(seen_blocks, sb)
        /\ fin_seen' = IF sb.kind = "Finalized"
                       THEN fin_seen \cup {sb.refs[i].hash : i \in DOMAIN sb.refs}
                       ELSE fin_seen
        /\ stale' = CASE ev.tag = "Stop" -> DOMAIN seen_blocks
                       [] sb.kind = "New" -> stale \ {sb.refs[1].hash}
                       [] OTHER -> stale
    /\ last' = "run"
    /\ UNCHANGED <<follow_ended, tx_ended, finalized_hash, done, pc, out, mem_log,
                   opVars, chVars, rtVars, pinVars, stVars, hdVars, evVars, lfVars>>

\* A slip in lines 574-618: the pass goes on whether the subscription had an
\* item or not.
NoSeenBlockSkipped == Passing

\* Past line 618: seen_blocks_sub had no item ready (Pending, or None at the end).
NoSeenBlock == Passing /\ ~follow_ready

\* lines 622-631: the subscription has no item; the finalized hash is marked
\* finalized: hand back the event.
LoopFinalizedFound ==
    /\ NoSeenBlock
    /\ finalized_hash # NoHash
    /\ FoundFinalized(seen_blocks, finalized_hash)
    /\ done' = TRUE
    /\ out' = Append(out, InFinalizedBlock(seen_blocks, finalized_hash))
    /\ pc' = "idle"
    /\ last' = "Item"
    /\ UNCHANGED <<follow_ended, tx_ended, seen_blocks, finalized_hash,
                   fin_seen, mem_log, follow_ready, stale,
                   opVars, chVars, rtVars, pinVars, stVars, hdVars, evVars, lfVars>>

\* lines 632-637: the subscription has no item and the finalized hash is not
\* marked finalized: continue, back to the head of the loop.
LoopFinalizedWait ==
    /\ NoSeenBlock
    /\ finalized_hash # NoHash
    /\ ~FoundFinalized(seen_blocks, finalized_hash)
    /\ last' = "wait"
    /\ UNCHANGED <<follow_ended, tx_ended, seen_blocks, finalized_hash, done, pc, out,
                   fin_seen, mem_log, follow_ready, stale,
                   opVars, chVars, rtVars, pinVars, stVars, hdVars, evVars, lfVars>>

\* A slip in lines 622-638: tx_progress is polled whether a finalized hash is
\* set or not.
PollingTxAlways == Passing

\* A slip in lines 632-637: the branch that waits for the finalized hash falls
\* through to tx_progress.
PollingTxWhileWaiting ==
    NoSeenBlock /\ (finalized_hash # NoHash => ~FoundFinalized(seen_blocks, finalized_hash))

\* Past line 638: the subscription has no item and no finalized hash is set:
\* tx_progress is polled.
PollingTx == NoSeenBlock /\ finalized_hash = NoHash

\* line 642: tx_progress is pending.
LoopTxPending ==
    /\ PollingTx
    /\ ~tx_ended
    /\ pc' = "idle"
    /\ last' = "Pending"
    /\ UNCHANGED <<follow_ended, tx_ended, seen_blocks, finalized_hash, done, out,
                   fin_seen, mem_log, follow_ready, stale,
                   opVars, chVars, rtVars, pinVars, stVars, hdVars, evVars, lfVars>>

\* lines 643-652: tx_progress has ended.
LoopTxEnd ==
    /\ PollingTx
    /\ tx_ended
    /\ IF finalized_hash # NoHash
       THEN /\ pc' = "panicked"
            /\ last' = "abort"
            /\ UNCHANGED done
       ELSE /\ done' = TRUE
            /\ pc' = "idle"
            /\ last' = "End"
    /\ UNCHANGED <<follow_ended, tx_ended, seen_blocks, finalized_hash, out,
                   fin_seen, mem_log, follow_ready, stale,
                   opVars, chVars, rtVars, pinVars, stVars, hdVars, evVars, lfVars>>

\* line 653: tx_progress yields an error: hand it on.
LoopTxErr ==
    /\ PollingTx
    /\ ~tx_ended
    /\ TxRead < MaxTx
    /\ out' = Append(out, ItemErr(TxErr.error))
    /\ pc' = "idle"
    /\ last' = "Item"
    /\ UNCHANGED <<follow_ended, tx_ended, seen_blocks, finalized_hash, done,
                   fin_seen, mem_log, follow_ready, stale,
                   opVars, chVars, rtVars, pinVars, stVars, hdVars, evVars, lfVars>>

\* lines 654-667: tx_progress yields Finalized: set the finalized hash and continue.
LoopTxFinalized ==
    /\ PollingTx
    /\ ~tx_ended
    /\ TxRead < MaxTx
    /\ \E ev \in TxItems :
        /\ ev.tag = "Finalized"
        /\ mem_log' = Append(mem_log, ev)
        /\ finalized_hash' = ev.block
    /\ last' = "run"
    /\ UNCHANGED <<follow_ended, tx_ended, seen_blocks, done, pc, out, fin_seen,
                   follow_ready, stale,
                   opVars, chVars, rtVars, pinVars, stVars, hdVars, evVars, lfVars>>

\* lines 654-698: tx_progress yields any other status: map it and hand it back.
LoopTxStatus ==
    /\ PollingTx
    /\ ~tx_ended
    /\ TxRead < MaxTx
    /\ \E ev \in TxItems :
        /\ ev.tag \notin {"Err", "Finalized"}
        /\ mem_log' = Append(mem_log, ev)
        /\ out' = Append(out, Translate(seen_blocks, ev))
    /\ pc' = "idle"
    /\ last' = "Item"
    /\ UNCHANGED <<follow_ended, tx_ended, seen_blocks, finalized_hash, done, fin_seen,
                   follow_ready, stale,
                   opVars, chVars, rtVars, pinVars, stVars, hdVars, evVars, lfVars>>

TxNext ==
    \/ FollowArrive
    \/ FollowEnd
    \/ TxEnd
    \/ Poll
    \/ LoopTimeout
    \/ LoopDone
    \/ LoopSeenBlock
    \/ LoopFinalizedFound
    \/ LoopFinalizedWait
    \/ LoopTxPending
    \/ LoopTxEnd
    \/ LoopTxErr
    \/ LoopTxFinalized
    \/ LoopTxStatus

(***************************************************************************)
(* block_body (lines 292-318) and call (lines 705-742).  Each request      *)
(* takes a subscription of its own from the follow stream driver and       *)
(* reads the events the driver publishes from then on.  The driver itself  *)
(* (follow_stream_driver) is modelled from its contract: every handle      *)
(* receives every event published after its creation, in order, and the    *)
(* subscription id is known once Initialized has been seen.                *)
(***************************************************************************)
Requests == {"r1", "r2"}

OpIds == 1..Cardinality(Requests)

\* Events the driver publishes in one run.
MaxEvents == 3

OpEvent(t, id) == [tag |-> t, operation_id |-> id]

\* The payload a done event carries: body.value, body.output.
PayloadOf(ev) == <<ev.tag, ev.operation_id>>

DriverEvents ==
    {OpEvent("Initialized", 0)}
        \cup {OpEvent(t, id) :
                t \in {"OperationBodyDone", "OperationCallDone", "OperationInaccessible",
                       "OperationError"},
                id \in OpIds}

NoResult == [tag |-> "none", value |-> <<>>]

\* Ok(Some(exts)) of block_body, Ok(output) of call.
OkValue(v) == [tag |-> "Ok", value |-> v]

\* Ok(None) of block_body.
OkNone == [tag |-> "OkNone", value |-> <<>>]

ErrSubscriptionDropped == [tag |-> "SubscriptionDropped", value |-> <<>>]

ErrRequestRejected == [tag |-> "RequestRejected", value |-> <<>>]

ErrRpc == [tag |-> "Rpc", value |-> <<>>]

NewRequest ==
    [kind |-> "none", pc |-> "new", sub |-> 0, pos |-> 0, status |-> "none",
     operation_id |-> 0, res |-> NoResult]

(***************************************************************************)
(* chain_head_follow (lines 338-348): a subscription to the driver's       *)
(* events, each event mapped to Ok(event).                                 *)
(***************************************************************************)
Streams == {"s1", "s2"}

NewStream == [pc |-> "new", sub |-> 0, pos |-> 0, out |-> <<>>]

(***************************************************************************)
(* UnstableBackendBuilder (lines 46-104).                                  *)
(***************************************************************************)
\* usize::MAX; the largest number of the model stands for it, and every block
\* number of the model is far below it.
UsizeMax == 2147483647

\* A slip in lines 59-63: the default is zero.
BuilderNewZero == [max_block_life |-> 0]

\* lines 59-63: UnstableBackendBuilder::new.
BuilderNew == [max_block_life |-> UsizeMax]

\* The values max_block_life() is called with.
ConfiguredLives == {1, 2}

\* Blocks announced in one run, and BlockRefs held to one block at a time.
MaxBlocks == 3

MaxRefs == 2

PinBlocks == 1..MaxBlocks

(***************************************************************************)
(* latest_finalized_block_ref (lines 320-336).                             *)
(***************************************************************************)
LfCalls == {"l1", "l2"}

NewLfCall == [pc |-> "new", sub |-> 0, pos |-> 0, res |-> NoResult]

(***************************************************************************)
(* Block::events (blocks/block_types.rs lines 255-258) and get_events      *)
(* (lines 447-471).                                                        *)
(***************************************************************************)
\* The calls of events() made on one Block and the values derived from it, all
\* sharing one cached_events.
EventsCalls == {"e1", "e2", "e3"}

(***************************************************************************)
(* The state after submit_transaction has returned the stream              *)
(* (lines 543-553), with the backend built and no request made yet.        *)
(***************************************************************************)
Init ==
    /\ follow_ended = FALSE
    /\ tx_ended = FALSE
    /\ seen_blocks = <<>>
    /\ finalized_hash = NoHash
    /\ done = FALSE
    /\ mem_log = <<>>
    /\ pc = "idle"
    /\ last = "none"
    /\ out = <<>>
    /\ fin_seen = {}
    /\ follow_ready = FALSE
    /\ stale = {}
    /\ drv_log = <<>>
    /\ drv_ended = FALSE
    /\ next_op = 1
    /\ req = [r \in Requests |-> NewRequest]
    /\ chf = [s \in Streams |-> NewStream]
    /\ rt_runtimes = <<>>
    /\ rt_log = <<>>
    /\ rt_emit = <<>>
    /\ builder = BuilderNew
    /\ configured = FALSE
    /\ built = FALSE
    /\ unpin_life = BuilderNew.max_block_life
    /\ rel_block_num = 0
    /\ announced = 0
    /\ pinned = {}
    /\ block_refs = [b \in PinBlocks |-> 0]
    /\ unpin_flags = {}
    /\ unpins = [b \in PinBlocks |-> 0]
    /\ aged = {}
    /\ held = {}
    /\ rederived = {}
    /\ st_pc = "new"
    /\ st_buf = <<>>
    /\ st_out = <<>>
    /\ st_recv = <<>>
    /\ st_events = 0
    /\ st_waits = 0
    /\ st_continues = 0
    /\ st_done_seen = FALSE
    /\ hd_log = <<>>
    /\ hd_life = 0
    /\ hd_kind = "none"
    /\ hd_sub_id = 0
    /\ hd_sub = 0
    /\ hd_pos = 0
    /\ hd_cur = <<>>
    /\ hd_reqs = <<>>
    /\ hd_out = <<>>
    /\ hd_ended = FALSE
    /\ lf = [c \in LfCalls |-> NewLfCall]
    /\ ev_cache = "none"
    /\ ev_lock = "none"
    /\ ev_pc = [c \in EventsCalls |-> "new"]
    /\ ev_res = [c \in EventsCalls |-> "none"]
    /\ ev_fetches = <<>>

\* The driver publishes an event to every handle.
DrvPublish ==
    /\ ~drv_ended
    /\ Len(drv_log) < MaxEvents
    /\ \E ev \in DriverEvents : drv_log' = Append(drv_log, ev)
    /\ UNCHANGED <<drv_ended, next_op, req, txVars, chVars, rtVars, pinVars, stVars, hdVars, evVars, lfVars>>

\* The follow stream ends: every handle yields None once it has read the log.
DrvEnd ==
    /\ ~drv_ended
    /\ drv_ended' = TRUE
    /\ UNCHANGED <<drv_log, next_op, req, txVars, chVars, rtVars, pinVars, stVars, hdVars, evVars, lfVars>>

\* lines 292, 705: the request is made.
ReqCall(r) ==
    /\ req[r].pc = "new"
    /\ \E k \in {"body", "call"} : req' = [req EXCEPT ![r].kind = k, ![r].pc = "sub_id"]
    /\ UNCHANGED <<drv_log, drv_ended, next_op, txVars, chVars, rtVars, pinVars, stVars, hdVars, evVars, lfVars>>

\* lines 746-754: get_subscription_id resolves with the id, or with
\* SubscriptionDropped when the stream ended before Initialized.
\* lines 296, 714: then the request subscribes, and the start call is sent.
ReqSubscribe(r) ==
    /\ req[r].pc = "sub_id"
    /\ IF HasTag(drv_log, "Initialized")
       THEN req' = [req EXCEPT ![r].pc = "starting", ![r].sub = Len(drv_log),
                                ![r].pos = Len(drv_log)]
       ELSE /\ drv_ended
            /\ req' = [req EXCEPT ![r].pc = "done", ![r].res = ErrSubscriptionDropped]
    /\ UNCHANGED <<drv_log, drv_ended, next_op, txVars, chVars, rtVars, pinVars, stVars, hdVars, evVars, lfVars>>

\* A slip in lines 298-303: LimitReached is not told from Started, and the
\* request goes on to wait for events.
StartOutcomeNoReject(rq, status, id) ==
    [rq EXCEPT !.status = status, !.pc = "waiting", !.operation_id = id]

\* lines 298-303, 720-725: the match on the answer to the start call.
StartOutcome(rq, status, id) ==
    IF status = "LimitReached"
    THEN [rq EXCEPT !.status = status, !.pc = "done", !.res = ErrRequestRejected]
    ELSE [rq EXCEPT !.status = status, !.pc = "waiting", !.operation_id = id]

\* A slip in lines 296-297, 714-719: the subscription is taken once the start
\* call has returned, and hands over what is published from then on.
ListenFromAnswer(rq, published) == published

\* lines 296-297, 714-719: follow_events was subscribed before the start call was
\* sent, and hands over what was published since then.
ListenFrom(rq, published) == rq.sub

\* lines 297, 716-719: the start call returns: an error, LimitReached, or
\* Started with an operation id the server has not handed out before.
ReqStart(r) ==
    /\ req[r].pc = "starting"
    /\ LET rq == [req[r] EXCEPT !.pos = ListenFrom(req[r], Len(drv_log))]
       IN  \/ /\ req' = [req EXCEPT ![r] = [rq EXCEPT !.pc = "done", !.res = ErrRpc]]
              /\ UNCHANGED next_op
           \/ /\ req' = [req EXCEPT ![r] = StartOutcome(rq, "LimitReached", 0)]
              /\ UNCHANGED next_op
           \/ /\ req' = [req EXCEPT ![r] = StartOutcome(rq, "Started", next_op)]
              /\ next_op' = next_op + 1
    /\ UNCHANGED <<drv_log, drv_ended, txVars, chVars, rtVars, pinVars, stVars, hdVars, evVars, lfVars>>

\* A slip in lines 310-312: the operation id is not compared.
IsDoneEventAnyId(ev, kind, id) ==
    ev.tag = (IF kind = "body" THEN "OperationBodyDone" ELSE "OperationCallDone")

\* lines 306-312, 728-734: the filter passes the done event of the request's
\* kind that carries its operation id.
IsDoneEvent(ev, kind, id) ==
    /\ ev.tag = (IF kind = "body" THEN "OperationBodyDone" ELSE "OperationCallDone")
    /\ ev.operation_id = id

\* line 317: block_body hands back whatever next() gave, inside Ok.
\* lines 738-741: call turns None into SubscriptionDropped.
OnStreamEnd(kind) == IF kind = "body" THEN OkNone ELSE ErrSubscriptionDropped

\* lines 306-317, 728-741: next() on the filtered events reads one more event.
ReqNextEvent(r) ==
    /\ req[r].pc = "waiting"
    /\ req[r].pos < Len(drv_log)
    /\ LET ev == drv_log[req[r].pos + 1] IN
        req' = [req EXCEPT
                  ![r].pos = @ + 1,
                  ![r].pc = IF IsDoneEvent(ev, req[r].kind, req[r].operation_id)
                            THEN "done" ELSE @,
                  ![r].res = IF IsDoneEvent(ev, req[r].kind, req[r].operation_id)
                             THEN OkValue(PayloadOf(ev)) ELSE @]
    /\ UNCHANGED <<drv_log, drv_ended, next_op, txVars, chVars, rtVars, pinVars, stVars, hdVars, evVars, lfVars>>

\* lines 317, 738-741: the events end before a done event passed the filter.
ReqStreamEnd(r) ==
    /\ req[r].pc = "waiting"
    /\ req[r].pos = Len(drv_log)
    /\ drv_ended
    /\ req' = [req EXCEPT ![r].pc = "done", ![r].res = OnStreamEnd(req[r].kind)]
    /\ UNCHANGED <<drv_log, drv_ended, next_op, txVars, chVars, rtVars, pinVars, stVars, hdVars, evVars, lfVars>>

OpNext ==
    \/ DrvPublish
    \/ DrvEnd
    \/ \E r \in Requests : ReqCall(r)
    \/ \E r \in Requests : ReqSubscribe(r)
    \/ \E r \in Requests : ReqStart(r)
    \/ \E r \in Requests : ReqNextEvent(r)
    \/ \E r \in Requests : ReqStreamEnd(r)

(***************************************************************************)
(* chain_head_follow (lines 338-348).                                      *)
(***************************************************************************)
\* A slip in line 345: the event is wrapped without its payload.
FollowItemBare(event) == [tag |-> "Ok", value |-> [tag |-> event.tag, operation_id |-> 0]]

\* line 345: .map(|event| Ok(event)).
FollowItem(event) == [tag |-> "Ok", value |-> event]

\* lines 341-347: the stream is made: a new subscription to the driver's events.
ChfSubscribe(s) ==
    /\ chf[s].pc = "new"
    /\ chf' = [chf EXCEPT ![s].pc = "open", ![s].sub = Len(drv_log),
                          ![s].pos = Len(drv_log)]
    /\ UNCHANGED <<txVars, opVars, rtVars, pinVars, stVars, hdVars, evVars, lfVars>>

\* line 345: the consumer polls the stream and the subscription has an event.
ChfNext(s) ==
    /\ chf[s].pc = "open"
    /\ chf[s].pos < Len(drv_log)
    /\ chf' = [chf EXCEPT ![s].pos = @ + 1,
                          ![s].out = Append(@, FollowItem(drv_log[chf[s].pos + 1]))]
    /\ UNCHANGED <<txVars, opVars, rtVars, pinVars, stVars, hdVars, evVars, lfVars>>

\* The consumer polls the stream and the subscription has ended.
ChfEnd(s) ==
    /\ chf[s].pc = "open"
    /\ chf[s].pos = Len(drv_log)
    /\ drv_ended
    /\ chf' = [chf EXCEPT ![s].pc = "ended"]
    /\ UNCHANGED <<txVars, opVars, rtVars, pinVars, stVars, hdVars, evVars, lfVars>>

ChfNextStep ==
    \/ DrvPublish
    \/ DrvEnd
    \/ \E s \in Streams : ChfSubscribe(s)
    \/ \E s \in Streams : ChfNext(s)
    \/ \E s \in Streams : ChfEnd(s)

(***************************************************************************)
(* stream_runtime_version (lines 360-413): filter_map over a subscription  *)
(* to the driver's events, with the map `runtimes` captured by the         *)
(* closure.  A RuntimeEvent is Valid(spec) or Invalid(error).              *)
(***************************************************************************)
\* Follow events the closure is given in one run.
MaxRtEvents == 4

NoRuntime == "none"

InvalidRuntime == "invalid"

Runtimes == {"v1", "v2", InvalidRuntime}

RtEvent(t, h, rt, hs) == [tag |-> t, hash |-> h, runtime |-> rt, hashes |-> hs]

RtEvents ==
    {RtEvent("Initialized", "B0", rt, <<>>) : rt \in {NoRuntime, "v1", InvalidRuntime}}
        \cup {RtEvent("NewBlock", h, rt, <<>>) : h \in Hashes, rt \in Runtimes \cup {NoRuntime}}
        \cup {RtEvent("Finalized", NoHash, NoRuntime, hs) : hs \in FinalizedLists}
        \cup {RtEvent("BestBlockChanged", "B1", NoRuntime, <<>>)}

\* lines 381-386: finalized_block_hashes.iter().rev().filter_map(get).next().
RECURSIVE LastRecorded(_, _)
LastRecorded(runtimes, hs) ==
    IF hs = <<>>
    THEN NoRuntime
    ELSE IF hs[Len(hs)] \in DOMAIN runtimes
         THEN runtimes[hs[Len(hs)]]
         ELSE LastRecorded(runtimes, SubSeq(hs, 1, Len(hs) - 1))

\* lines 369-392: `output`, the runtime event the match gives for an event.
RuntimeOutput(runtimes, ev) ==
    CASE ev.tag = "Initialized" -> ev.runtime
      [] ev.tag = "NewBlock" -> NoRuntime
      [] ev.tag = "Finalized" -> LastRecorded(runtimes, ev.hashes)
      [] OTHER -> NoRuntime

\* lines 369-392: `runtimes` after the match.
RuntimesAfter(runtimes, ev) ==
    CASE ev.tag = "Initialized" -> <<>>
      [] ev.tag = "NewBlock" ->
            IF ev.runtime # NoRuntime
            THEN [h \in DOMAIN runtimes \cup {ev.hash} |->
                     IF h = ev.hash THEN ev.runtime ELSE runtimes[h]]
            ELSE runtimes
      [] ev.tag = "Finalized" -> <<>>
      [] OTHER -> runtimes

\* lines 394-409: what the closure returns: None, Some(Err(..)) for an invalid
\* runtime, Some(Ok(RuntimeVersion)) for a valid one.
RuntimeItem(output) ==
    CASE output = NoRuntime -> [tag |-> "None", version |-> NoRuntime]
      [] output = InvalidRuntime -> [tag |-> "Err", version |-> NoRuntime]
      [] OTHER -> [tag |-> "Ok", version |-> output]

\* The events of the log that follow its last Initialized.
RECURSIVE SinceInitialized(_)
SinceInitialized(log) ==
    IF log = <<>> \/ log[Len(log)].tag = "Initialized"
    THEN <<>>
    ELSE Append(SinceInitialized(SubSeq(log, 1, Len(log) - 1)), log[Len(log)])

\* The hashes the events with tag `t` of the log name.
NamedBy(log, t) ==
    {log[i].hash : i \in {j \in DOMAIN log : log[j].tag = t}}
        \cup UNION {{log[i].hashes[k] : k \in DOMAIN log[i].hashes} :
                      i \in {j \in DOMAIN log : log[j].tag = t}}

\* What the node may send next within one subscription: a block is announced
\* once and not after it was finalized, is finalized once, and after its parent.
NodeMaySend(log, ev) ==
    LET new == NamedBy(SinceInitialized(log), "NewBlock")
        fin == NamedBy(SinceInitialized(log), "Finalized")
        hs == {ev.hashes[k] : k \in DOMAIN ev.hashes}
    IN  /\ ev.tag = "NewBlock" => ev.hash \notin new \cup fin
        /\ ev.tag = "Finalized" =>
              /\ hs \cap fin = {}
              /\ \A h \in hs : ParentOf(h) \in Hashes => ParentOf(h) \in hs \cup fin

\* lines 368-410: the closure is called with the next event of the subscription.
RtOnEvent ==
    /\ Len(rt_log) < MaxRtEvents
    /\ \E ev \in RtEvents :
        /\ NodeMaySend(rt_log, ev)
        /\ rt_log' = Append(rt_log, ev)
        /\ rt_emit' = Append(rt_emit, RuntimeItem(RuntimeOutput(rt_runtimes, ev)))
        /\ rt_runtimes' = RuntimesAfter(rt_runtimes, ev)
    /\ UNCHANGED <<txVars, opVars, chVars, pinVars, stVars, hdVars, evVars, lfVars>>

RtNext == RtOnEvent

(***************************************************************************)
(* The builder (lines 57-104) and the unpinning follow stream it makes.    *)
(* The unpinning stream (follow_stream_unpin) is modelled from its         *)
(* contract: a block is registered when announced; a BlockRef dropped as   *)
(* the last one flags its block; on each pass every pinned block whose age *)
(* has reached max_block_life, or that is flagged and has no BlockRef      *)
(* held, is unpinned and its entry dropped.                                *)
(***************************************************************************)
\* lines 73-76: max_block_life sets the field.
BuilderMaxBlockLife ==
    /\ ~built
    /\ \E n \in ConfiguredLives : builder' = [builder EXCEPT !.max_block_life = n]
    /\ configured' = TRUE
    /\ UNCHANGED <<built, unpin_life, rel_block_num, announced, pinned, block_refs, unpin_flags,
                   unpins, aged, held, rederived, txVars, opVars, chVars, rtVars, stVars, hdVars, evVars, lfVars>>

\* lines 81-103: build hands self.max_block_life to the unpinning follow stream.
Build ==
    /\ ~built
    /\ built' = TRUE
    /\ unpin_life' = builder.max_block_life
    /\ UNCHANGED <<builder, configured, rel_block_num, announced, pinned, block_refs, unpin_flags,
                   unpins, aged, held, rederived, txVars, opVars, chVars, rtVars, stVars, hdVars, evVars, lfVars>>

\* The age of a block: the current finalized number less the block's number.
Age(fin, b) == IF fin > b THEN fin - b ELSE 0

\* A slip: a flagged block is unpinned whether or not a BlockRef is held again.
ToUnpinFlagged(pins, fin, flags, held_refs, life) ==
    {b \in pins : Age(fin, b) >= life \/ b \in flags}

\* The blocks a pass unpins.
ToUnpin(pins, fin, flags, held_refs, life) ==
    {b \in pins : Age(fin, b) >= life \/ (b \in flags /\ held_refs[b] = 0)}

\* A slip: the entries of the unpinned blocks are kept.
PinnedKept(pins, gone) == pins

\* The pinned set after a pass: the entries of the unpinned blocks are dropped.
PinnedAfter(pins, gone) == pins \ gone

\* One pass over the pinned set, with the finalized number `fin`.
UnpinBlocks(fin) ==
    LET gone == ToUnpin(pinned, fin, unpin_flags, block_refs, unpin_life) IN
    /\ pinned' = PinnedAfter(pinned, gone)
    /\ unpin_flags' = unpin_flags \ gone
    /\ unpins' = [b \in PinBlocks |-> IF b \in gone THEN unpins[b] + 1 ELSE unpins[b]]
    /\ aged' = aged \cup {b \in gone : Age(fin, b) >= unpin_life}
    /\ held' = held \cup {b \in gone : block_refs[b] > 0}

\* NewBlock: the block is registered.
PinNewBlock ==
    /\ built
    /\ announced < MaxBlocks
    /\ announced' = announced + 1
    /\ pinned' = pinned \cup {announced + 1}
    /\ UNCHANGED <<builder, configured, built, unpin_life, rel_block_num, block_refs, unpin_flags,
                   unpins, aged, held, rederived, txVars, opVars, chVars, rtVars, stVars, hdVars, evVars, lfVars>>

\* Finalized: the finalized number advances to that of the last finalized
\* block, then a pass is made.
PinFinalized ==
    /\ built
    /\ \E n \in (rel_block_num + 1)..announced :
        /\ rel_block_num' = n
        /\ UnpinBlocks(n)
    /\ UNCHANGED <<builder, configured, built, unpin_life, announced, block_refs, rederived,
                   txVars, opVars, chVars, rtVars, stVars, hdVars, evVars, lfVars>>

\* The stream is polled with no event to handle: a pass is made.
PinPoll ==
    /\ built
    /\ ToUnpin(pinned, rel_block_num, unpin_flags, block_refs, unpin_life) # {}
    /\ UnpinBlocks(rel_block_num)
    /\ UNCHANGED <<builder, configured, built, unpin_life, rel_block_num, announced, block_refs,
                   rederived, txVars, opVars, chVars, rtVars, stVars, hdVars, evVars, lfVars>>

\* A consumer derives a BlockRef: from an event that names a pinned block, or by
\* cloning one it holds.
RefDerive(b) ==
    /\ b \in pinned \/ block_refs[b] > 0
    /\ block_refs[b] < MaxRefs
    /\ block_refs' = [block_refs EXCEPT ![b] = @ + 1]
    /\ rederived' = IF b \in unpin_flags /\ block_refs[b] = 0
                    THEN rederived \cup {b}
                    ELSE rederived
    /\ UNCHANGED <<builder, configured, built, unpin_life, rel_block_num, announced, pinned,
                   unpin_flags, unpins, aged, held, txVars, opVars, chVars, rtVars, stVars, hdVars, evVars, lfVars>>

\* A consumer drops a BlockRef; the last one to go flags the block.
RefDrop(b) ==
    /\ block_refs[b] > 0
    /\ block_refs' = [block_refs EXCEPT ![b] = @ - 1]
    /\ unpin_flags' = IF block_refs[b] = 1 THEN unpin_flags \cup {b} ELSE unpin_flags
    /\ UNCHANGED <<builder, configured, built, unpin_life, rel_block_num, announced, pinned,
                   unpins, aged, held, rederived, txVars, opVars, chVars, rtVars, stVars, hdVars, evVars, lfVars>>

PinNext ==
    \/ BuilderMaxBlockLife
    \/ Build
    \/ PinNewBlock
    \/ PinFinalized
    \/ PinPoll
    \/ \E b \in PinBlocks : RefDerive(b)
    \/ \E b \in PinBlocks : RefDrop(b)

(***************************************************************************)
(* storage_fetch_descendant_keys (lines 224-245): a StorageItems stream    *)
(* for one DescendantsHashes query, each result mapped to its key.  The    *)
(* StorageItems stream (storage_items) is modelled from its contract: it   *)
(* starts the storage operation, forwards the items of each                *)
(* OperationStorageItems batch of its operation in order, issues a         *)
(* continue call on OperationWaitingForContinue, ends on                   *)
(* OperationStorageDone and fails on OperationInaccessible and             *)
(* OperationError; events of other operations are passed over.             *)
(***************************************************************************)
\* Follow events the storage stream reads in one run.
MaxStEvents == 4

\* The operation id of the storage operation, and that of another operation.
StOpIds == {"own", "other"}

\* A StorageResult: the key and, for a DescendantsHashes query, the hash.
StorageResult(k) == [key |-> k, result |-> <<"hash", k>>]

Batches ==
    {<<StorageResult("k1")>>, <<StorageResult("k2"), StorageResult("k1")>>,
     <<StorageResult("k1"), StorageResult("k1")>>}

StEvent(t, id, items) == [tag |-> t, operation_id |-> id, items |-> items]

StEvents ==
    {StEvent("OperationStorageItems", id, b) : id \in StOpIds, b \in Batches}
        \cup {StEvent(t, id, <<>>) :
                t \in {"OperationWaitingForContinue", "OperationStorageDone",
                       "OperationError"},
                id \in StOpIds}

\* A slip in line 243: the result is handed back in place of the key.
KeyItemResult(v) == [tag |-> "Ok", value |-> v.result]

\* line 243: storage_items.map(|val| val.map(|v| v.key.0)).
KeyItem(v) == [tag |-> "Ok", value |-> v.key]

\* lines 235-241: the StorageItems stream is made: the operation is started.
StStart ==
    /\ st_pc = "new"
    /\ st_pc' = "streaming"
    /\ UNCHANGED <<st_buf, st_out, st_recv, st_events, st_waits, st_continues, st_done_seen,
                   txVars, opVars, chVars, rtVars, pinVars, hdVars, evVars, lfVars>>

\* lines 243-244: the stream is polled and StorageItems has an item buffered.
StYield ==
    /\ st_pc = "streaming"
    /\ st_buf # <<>>
    /\ st_out' = Append(st_out, KeyItem(Head(st_buf)))
    /\ st_buf' = Tail(st_buf)
    /\ UNCHANGED <<st_pc, st_recv, st_events, st_waits, st_continues, st_done_seen,
                   txVars, opVars, chVars, rtVars, pinVars, hdVars, evVars, lfVars>>

\* The stream is polled, StorageItems has nothing buffered and reads the next
\* follow event.
StOnEvent ==
    /\ st_pc = "streaming"
    /\ st_buf = <<>>
    /\ st_events < MaxStEvents
    /\ st_events' = st_events + 1
    /\ \E ev \in StEvents :
        LET own == ev.operation_id = "own" IN
        /\ st_buf' = IF own THEN ev.items ELSE st_buf
        /\ st_recv' = IF own THEN st_recv \o ev.items ELSE st_recv
        /\ st_waits' = IF own /\ ev.tag = "OperationWaitingForContinue"
                       THEN st_waits + 1 ELSE st_waits
        /\ st_continues' = IF own /\ ev.tag = "OperationWaitingForContinue"
                           THEN st_continues + 1 ELSE st_continues
        /\ st_done_seen' = (st_done_seen \/ (own /\ ev.tag = "OperationStorageDone"))
        /\ st_pc' = CASE own /\ ev.tag = "OperationStorageDone" -> "done"
                      [] own /\ ev.tag = "OperationError" -> "failed"
                      [] OTHER -> st_pc
    /\ UNCHANGED <<st_out, txVars, opVars, chVars, rtVars, pinVars, hdVars, evVars, lfVars>>

StNext ==
    \/ StStart
    \/ StYield
    \/ StOnEvent

(***************************************************************************)
(* stream_headers (lines 139-178) and the three header streams made with   *)
(* it (lines 415-448).  The driver is modelled from its contract: a handle *)
(* receives every event published after its creation, and after a Stop the *)
(* driver may subscribe again, which begins a new lifetime with a new      *)
(* subscription id and a fresh Initialized.                                *)
(***************************************************************************)
\* Follow events the driver publishes in one run.
MaxHdEvents == 4

HdKinds == {"all", "best", "finalized"}

HdEvent(t, h, hs, life) == [tag |-> t, hash |-> h, hashes |-> hs, life |-> life]

\* The events the node may send in lifetime `life`, apart from Initialized.
HdEvents(life) ==
    {HdEvent("NewBlock", h, <<>>, life) : h \in Hashes}
        \cup {HdEvent("BestBlockChanged", h, <<>>, life) : h \in Hashes}
        \cup {HdEvent("Finalized", NoHash, hs, life) : hs \in FinalizedLists}
        \cup {HdEvent("Stop", NoHash, <<>>, life)}

\* The subscription id of a lifetime.
SubIdOf(life) == life

\* The block refs of an event, each with the lifetime that pinned it.
HdRefs(hs, life) == [i \in DOMAIN hs |-> [hash |-> hs[i], life |-> life]]

\* lines 418-422, 429-433, 440-446: the closure f of each header stream.
BlocksOf(kind, ev) ==
    CASE kind = "all" /\ ev.tag \in {"Initialized", "NewBlock"} -> HdRefs(<<ev.hash>>, ev.life)
      [] kind = "best" /\ ev.tag \in {"Initialized", "BestBlockChanged"} ->
            HdRefs(<<ev.hash>>, ev.life)
      [] kind = "finalized" /\ ev.tag = "Initialized" -> HdRefs(<<ev.hash>>, ev.life)
      [] kind = "finalized" /\ ev.tag = "Finalized" -> HdRefs(ev.hashes, ev.life)
      [] OTHER -> <<>>

\* What chainhead_unstable_header answers: Ok(Some(header)), Ok(None) or Err.
HeaderAnswers == {"Some", "None", "Err"}

\* A slip in lines 161-169: a failed lookup is skipped like a missing header.
HeaderItemsErrSkipped(answer, block_ref) ==
    IF answer = "Some"
    THEN <<[tag |-> "Ok", hash |-> block_ref.hash]>>
    ELSE <<>>

\* lines 161-174: transpose()? gives None for Ok(None), and the item is left
\* out; an Err becomes Some(Err(e)), a header Some(Ok((header, block_ref))).
HeaderItems(answer, block_ref) ==
    CASE answer = "Some" -> <<[tag |-> "Ok", hash |-> block_ref.hash]>>
      [] answer = "Err" -> <<[tag |-> "Err", hash |-> NoHash]>>
      [] OTHER -> <<>>

\* The driver publishes the next event: Initialized at the start of a lifetime,
\* which begins at the first event and after a Stop.
HdPublish ==
    /\ ~hd_ended
    /\ Len(hd_log) < MaxHdEvents
    /\ IF hd_log = <<>> \/ hd_log[Len(hd_log)].tag = "Stop"
       THEN /\ hd_life' = hd_life + 1
            /\ \E h \in Hashes :
                  hd_log' = Append(hd_log, HdEvent("Initialized", h, <<>>, hd_life + 1))
       ELSE /\ \E ev \in HdEvents(hd_life) : hd_log' = Append(hd_log, ev)
            /\ UNCHANGED hd_life
    /\ UNCHANGED <<hd_kind, hd_sub_id, hd_sub, hd_pos, hd_cur, hd_reqs, hd_out, hd_ended,
                   txVars, opVars, chVars, rtVars, pinVars, stVars, evVars, lfVars>>

\* The follow stream ends: every handle yields None once it has read the log.
HdEnd ==
    /\ ~hd_ended
    /\ hd_ended' = TRUE
    /\ UNCHANGED <<hd_log, hd_life, hd_kind, hd_sub_id, hd_sub, hd_pos, hd_cur, hd_reqs, hd_out,
                   txVars, opVars, chVars, rtVars, pinVars, stVars, evVars, lfVars>>

\* lines 148-151: get_subscription_id resolves with the id of the lifetime that
\* is running, the closure captures it, and the stream subscribes.
StreamHeaders ==
    /\ hd_kind = "none"
    /\ hd_log # <<>>
    /\ hd_log[Len(hd_log)].tag # "Stop"
    /\ \E kind \in HdKinds : hd_kind' = kind
    /\ hd_sub_id' = SubIdOf(hd_life)
    /\ hd_sub' = Len(hd_log)
    /\ hd_pos' = Len(hd_log)
    /\ UNCHANGED <<hd_log, hd_life, hd_cur, hd_reqs, hd_out, hd_ended,
                   txVars, opVars, chVars, rtVars, pinVars, stVars, evVars, lfVars>>

\* lines 151-155: flat_map takes the next event once the block refs of the one
\* before are used up, and f gives the block refs of the event.
HdNextEvent ==
    /\ hd_kind # "none"
    /\ hd_cur = <<>>
    /\ hd_pos < Len(hd_log)
    /\ hd_pos' = hd_pos + 1
    /\ hd_cur' = BlocksOf(hd_kind, hd_log[hd_pos + 1])
    /\ UNCHANGED <<hd_log, hd_life, hd_kind, hd_sub_id, hd_sub, hd_reqs, hd_out, hd_ended,
                   txVars, opVars, chVars, rtVars, pinVars, stVars, evVars, lfVars>>

\* lines 157-174: the header of the next block ref is requested with the
\* captured subscription id, and the answer decides the item.
HdLookup ==
    /\ hd_kind # "none"
    /\ hd_cur # <<>>
    /\ \E answer \in HeaderAnswers :
        /\ hd_reqs' = Append(hd_reqs, [sub_id |-> hd_sub_id, block_ref |-> Head(hd_cur),
                                       answer |-> answer])
        /\ hd_out' = hd_out \o HeaderItems(answer, Head(hd_cur))
    /\ hd_cur' = Tail(hd_cur)
    /\ UNCHANGED <<hd_log, hd_life, hd_kind, hd_sub_id, hd_sub, hd_pos, hd_ended,
                   txVars, opVars, chVars, rtVars, pinVars, stVars, evVars, lfVars>>

HdNext ==
    \/ HdPublish
    \/ HdEnd
    \/ StreamHeaders
    \/ HdNextEvent
    \/ HdLookup

(***************************************************************************)
(* get_events (blocks/block_types.rs lines 447-471), called by             *)
(* Block::events (lines 255-258) and by the extrinsics derived from the    *)
(* block, which share cached_events (lines 268-272, 313).                  *)
(***************************************************************************)
\* What the fetch from the node gives.
FetchOutcomes == {"events", "err"}

\* lines 461-468: the cache after the None arm has fetched: the arm hands the
\* events back and assigns nothing to the cache.
CacheAfterFetch(cache, outcome) == cache

\* lines 255-258: events() is called.
EvCall(c) ==
    /\ ev_pc[c] = "new"
    /\ ev_pc' = [ev_pc EXCEPT ![c] = "locking"]
    /\ UNCHANGED <<ev_cache, ev_lock, ev_res, ev_fetches,
                   txVars, opVars, chVars, rtVars, pinVars, stVars, hdVars, lfVars>>

\* lines 460-463: the lock is acquired; a filled cache is cloned and returned,
\* which drops the lock; an empty one starts a fetch with the lock held.
EvLocked(c) ==
    /\ ev_pc[c] = "locking"
    /\ ev_lock = "none"
    /\ IF ev_cache # "none"
       THEN /\ ev_pc' = [ev_pc EXCEPT ![c] = "done"]
            /\ ev_res' = [ev_res EXCEPT ![c] = ev_cache]
            /\ UNCHANGED ev_lock
       ELSE /\ ev_pc' = [ev_pc EXCEPT ![c] = "fetching"]
            /\ ev_lock' = c
            /\ UNCHANGED ev_res
    /\ UNCHANGED <<ev_cache, ev_fetches,
                   txVars, opVars, chVars, rtVars, pinVars, stVars, hdVars, lfVars>>

\* lines 464-470: the fetch returns, the call returns its outcome and the lock
\* is dropped.
EvFetched(c) ==
    /\ ev_pc[c] = "fetching"
    /\ \E outcome \in FetchOutcomes :
        /\ ev_fetches' = Append(ev_fetches, outcome)
        /\ ev_res' = [ev_res EXCEPT ![c] = outcome]
        /\ ev_cache' = CacheAfterFetch(ev_cache, outcome)
    /\ ev_pc' = [ev_pc EXCEPT ![c] = "done"]
    /\ ev_lock' = "none"
    /\ UNCHANGED <<txVars, opVars, chVars, rtVars, pinVars, stVars, hdVars, lfVars>>

EvNext ==
    \/ \E c \in EventsCalls : EvCall(c)
    \/ \E c \in EventsCalls : EvLocked(c)
    \/ \E c \in EventsCalls : EvFetched(c)

(***************************************************************************)
(* latest_finalized_block_ref (lines 320-336): next() on a fresh           *)
(* subscription filtered for Initialized.  The driver is the one of the    *)
(* header streams.                                                         *)
(***************************************************************************)
\* The block ref handed back: BlockRef of the event's hash, pinned in its lifetime.
LfRef(ev) == [hash |-> ev.hash, life |-> ev.life]

\* A slip in lines 325-330: a Finalized event passes the filter too, with the
\* last of its hashes.
InitializedRefOrFinalized(ev) ==
    CASE ev.tag = "Initialized" -> OkValue(LfRef(ev))
      [] ev.tag = "Finalized" ->
            OkValue([hash |-> ev.hashes[Len(ev.hashes)], life |-> ev.life])
      [] OTHER -> NoResult

\* lines 325-330: the closure of filter_map: Some(finalized_block_hash.into())
\* for Initialized, None for every other event.
InitializedRef(ev) ==
    IF ev.tag = "Initialized" THEN OkValue(LfRef(ev)) ELSE NoResult

\* lines 321-324: the call subscribes.
LfCall(c) ==
    /\ lf[c].pc = "new"
    /\ lf' = [lf EXCEPT ![c].pc = "waiting", ![c].sub = Len(hd_log), ![c].pos = Len(hd_log)]
    /\ UNCHANGED <<txVars, opVars, chVars, rtVars, pinVars, stVars, hdVars, evVars>>

\* lines 325-333: next() reads one more event; the first that passes the filter
\* is the answer.
LfNextEvent(c) ==
    /\ lf[c].pc = "waiting"
    /\ lf[c].pos < Len(hd_log)
    /\ LET next_ref == InitializedRef(hd_log[lf[c].pos + 1]) IN
        lf' = [lf EXCEPT ![c].pos = @ + 1,
                         ![c].pc = IF next_ref # NoResult THEN "done" ELSE @,
                         ![c].res = next_ref]
    /\ UNCHANGED <<txVars, opVars, chVars, rtVars, pinVars, stVars, hdVars, evVars>>

\* lines 332-335: the events end before one passed the filter: next() gives
\* None, ok_or_else makes it SubscriptionDropped.
LfStreamEnd(c) ==
    /\ lf[c].pc = "waiting"
    /\ lf[c].pos = Len(hd_log)
    /\ hd_ended
    /\ lf' = [lf EXCEPT ![c].pc = "done", ![c].res = ErrSubscriptionDropped]
    /\ UNCHANGED <<txVars, opVars, chVars, rtVars, pinVars, stVars, hdVars, evVars>>

LfNext ==
    \/ HdPublish
    \/ HdEnd
    \/ \E c \in LfCalls : LfCall(c)
    \/ \E c \in LfCalls : LfNextEvent(c)
    \/ \E c \in LfCalls : LfStreamEnd(c)

SpecTx == Init /\ [][TxNext]_vars

SpecOp == Init /\ [][OpNext]_vars

SpecChf == Init /\ [][ChfNextStep]_vars

SpecRt == Init /\ [][RtNext]_vars

SpecPin == Init /\ [][PinNext]_vars

SpecSt == Init /\ [][StNext]_vars

SpecHdr == Init /\ [][HdNext]_vars

SpecEv == Init /\ [][EvNext]_vars

SpecLf == Init /\ [][LfNext]_vars


(***************************************************************************)
(* Properties of the submit_transaction stream.                            *)
(***************************************************************************)
Last(seq) == seq[Len(seq)]

\* A step of the stream itself, not of the follow stream or of the node.
StreamStep ==
    /\ pc = "loop"
    /\ UNCHANGED <<follow_ended, tx_ended>>
    /\ follow_ready' => follow_ready

\* The step yields the item `it`.
Yields(it) == out' = Append(out, it)

\* C1: an InFinalizedBlock is yielded only for a hash that a Finalized event
\* yielded by the stream's own follow subscription has listed before, and it
\* carries the pinned block ref of the follow stream, not one built from the hash.
C1_FinalizedOnlyFromFollow ==
    [][\A h \in Hashes, p \in BOOLEAN :
          Yields(Status("InFinalizedBlock", [hash |-> h, pinned |-> p], 0, ""))
              => h \in fin_seen /\ p /\ h = finalized_hash]_vars

C1_Witness == out # <<>> /\ Last(out).tag = "InFinalizedBlock"

\* The source sequence read so far: Validated / Broadcasted / BestChainBlockIncluded
\* items, then Finalized.
ProgressThenFinalized ==
    /\ mem_log # <<>>
    /\ Last(mem_log).tag = "Finalized"
    /\ \A i \in 1..(Len(mem_log) - 1) :
          mem_log[i].tag \in {"Validated", "Broadcasted", "BestChainBlockIncluded"}
    /\ ~HasTag(out, "Err")

\* The status tag and block hash a raw status is to be reported with.
ReportedAs(ev) ==
    CASE ev.tag = "BestChainBlockIncluded" /\ ev.block # NoHash -> <<"InBestBlock", ev.block>>
      [] ev.tag = "BestChainBlockIncluded" /\ ev.block = NoHash ->
            <<"NoLongerInBestBlock", NoHash>>
      [] ev.tag = "Finalized" -> <<"InFinalizedBlock", ev.block>>
      [] ev.tag = "Error" -> <<"Dropped", NoHash>>
      [] OTHER -> <<ev.tag, NoHash>>

\* C2: for a source sequence of Validated / Broadcasted / BestChainBlockIncluded
\* items followed by Finalized{B}, once the follow stream has delivered a
\* Finalized event with B the stream goes on to yield InFinalizedBlock{B} after
\* the translations of the earlier items, in source order, and ends: it does not
\* abort, and when it is done it has yielded exactly that.
C2_TranslationsThenFinalized ==
    (ProgressThenFinalized /\ Last(mem_log).block \in fin_seen)
        => /\ pc # "panicked"
           /\ done => /\ Len(out) = Len(mem_log)
                      /\ \A i \in DOMAIN out :
                            <<out[i].tag, out[i].hash.hash>> = ReportedAs(mem_log[i])

\* The finalized hash is set and no entry of seen_blocks marks it finalized.
AwaitingFinalized ==
    /\ ~done
    /\ finalized_hash # NoHash
    /\ ~FoundFinalized(seen_blocks, finalized_hash)

\* The step ends the stream with an error item.
EndsWithError ==
    /\ \E it \in {ItemErr("protocol violation"), ItemErr(TxErr.error)} : Yields(it)
    /\ pc' = "idle"

\* The pass is not the one that panics because 240 seconds have passed.
InTime == pc' # "panicked"

\* C3: when the follow stream has ended and the finalized hash the transaction
\* reported was never marked finalized, the stream yields an error item; it does
\* not go on waiting (stated for the passes made in time).
C3_FollowEndedIsError ==
    [][(StreamStep /\ InTime /\ AwaitingFinalized /\ follow_ended) => EndsWithError]_vars

\* C4: when the transaction-status source has ended while the finalized hash is
\* set and not yet matched, the stream yields an error item; it does not go on
\* waiting or end silently (stated for the passes made in time).
C4_SourceEndedIsError ==
    [][(StreamStep /\ InTime /\ AwaitingFinalized /\ tx_ended) => EndsWithError]_vars

\* C5: no status is yielded after a terminal status (Dropped or Invalid).
C5_TerminalStatusIsLast ==
    \A i, j \in DOMAIN out :
        (i < j /\ out[i].tag \in {"Dropped", "Invalid"}) => out[j].tag = "Err"

\* C6: once InFinalizedBlock has been yielded nothing else is yielded, and every
\* poll returns the end of the stream.
C6_FinalizedIsTerminal ==
    [][HasTag(out, "InFinalizedBlock")
          => /\ out' = out
             /\ StreamStep => pc' = "idle" /\ last' = "End"]_vars

\* The lifecycle stage of a raw and of a client-facing status.
Stage(tag) ==
    CASE tag = "Validated" -> 1
      [] tag = "Broadcasted" -> 2
      [] tag \in {"BestChainBlockIncluded", "InBestBlock", "NoLongerInBestBlock"} -> 3
      [] tag \in {"Finalized", "InFinalizedBlock", "Dropped", "Invalid", "Error"} -> 4
      [] OTHER -> 0

\* No status of an earlier stage after one of a later stage (error items aside).
Progresses(seq) ==
    \A i, j \in DOMAIN seq :
        (i < j /\ Stage(seq[i].tag) > 0 /\ Stage(seq[j].tag) > 0)
            => Stage(seq[i].tag) <= Stage(seq[j].tag)

DoneTag(kind) == IF kind = "body" THEN "OperationBodyDone" ELSE "OperationCallDone"

\* The places of the log, among those the request's subscription covers up to
\* `upto`, that hold the done event of its kind with its operation id.
OwnDoneEvents(rq, upto) ==
    {i \in (rq.sub + 1)..upto :
        /\ drv_log[i].tag = DoneTag(rq.kind)
        /\ drv_log[i].operation_id = rq.operation_id}

\* C8: a started body or call request whose event stream ended before a done
\* event with its operation id arrived fails with SubscriptionDropped, whichever
\* of the two kinds it is.
C8_StreamEndIsSubscriptionDropped ==
    \A r \in Requests :
        (/\ req[r].pc = "done"
         /\ req[r].status = "Started"
         /\ OwnDoneEvents(req[r], Len(drv_log)) = {})
            => req[r].res = ErrSubscriptionDropped

\* The first of a non-empty set of places of the log.
First(places) == CHOOSE i \in places : \A j \in places : i <= j

\* C29: a started request misses no done event of its kind with its operation
\* id that the driver published after the request subscribed, which it did
\* before it sent the start call: while such an event is in the log, the request
\* either has not read up to the first of them yet or has completed with the
\* payload of that first one.
C29_NoDoneEventMissed ==
    \A r \in Requests :
        (/\ req[r].status = "Started"
         /\ OwnDoneEvents(req[r], Len(drv_log)) # {})
            => \/ /\ req[r].pc = "waiting"
                  /\ req[r].pos < First(OwnDoneEvents(req[r], Len(drv_log)))
               \/ /\ req[r].pc = "done"
                  /\ req[r].res =
                        OkValue(PayloadOf(drv_log[First(OwnDoneEvents(req[r], Len(drv_log)))]))

\* A request has completed with the payload of a done event that the driver
\* published after the start call was sent and before its answer arrived: another
\* request subscribed after that event was published and yet was answered first,
\* as its smaller operation id shows.
C29_Witness ==
    \E r, q \in Requests :
        /\ req[q].res.tag = "Ok"
        /\ req[r].status = "Started"
        /\ req[r].operation_id < req[q].operation_id
        /\ req[q].pos <= req[r].sub

\* C9: a request completes with a payload only on the first done event of its
\* own kind that carries its own operation id, and with that event's payload;
\* while it waits, no such event is among those it has read.  The operation ids
\* of started requests are pairwise distinct.
C9_OwnDoneEventOnly ==
    /\ \A r \in Requests :
          /\ req[r].res.tag = "Ok"
                => /\ OwnDoneEvents(req[r], req[r].pos) = {req[r].pos}
                   /\ req[r].res.value = PayloadOf(drv_log[req[r].pos])
          /\ req[r].pc = "waiting" => OwnDoneEvents(req[r], req[r].pos) = {}
    /\ \A r, q \in Requests :
          (r # q /\ req[r].status = "Started" /\ req[q].status = "Started")
              => req[r].operation_id # req[q].operation_id

\* Two requests have completed, one of them after reading past the other's
\* done event.
C9_Witness ==
    \E r, q \in Requests :
        /\ r # q
        /\ req[r].res.tag = "Ok"
        /\ req[q].res.tag = "Ok"
        /\ req[r].sub < req[q].pos
        /\ req[q].pos < req[r].pos

\* C10: the step in which a start call is answered LimitReached ends that
\* request with a request-rejected error, reads no follow event, and leaves the
\* driver's stream and every other request as they were.
C10_LimitReachedIsLocal ==
    [][\A r \in Requests :
          (req[r].status # "LimitReached" /\ req'[r].status = "LimitReached")
              => /\ req'[r].pc = "done"
                 /\ req'[r].res = ErrRequestRejected
                 /\ req'[r].pos = req[r].sub
                 /\ UNCHANGED <<drv_log, drv_ended>>
                 /\ \A q \in Requests \ {r} : req'[q] = req[q]]_vars

\* One request was rejected, and another one, subscribed no later, has gone on
\* to get its result from the stream.
C10_Witness ==
    \E r, q \in Requests :
        /\ req[r].status = "LimitReached"
        /\ req[r].res = ErrRequestRejected
        /\ req[q].res.tag = "Ok"
        /\ req[q].sub <= req[r].sub
        /\ req[q].pos > req[r].sub

\* The places of the log, among those the request's subscription covers up to
\* `upto`, that hold a failure event (OperationInaccessible, OperationError) with
\* its operation id.
OwnFailureEvents(rq, upto) ==
    {i \in (rq.sub + 1)..upto :
        /\ drv_log[i].tag \in {"OperationInaccessible", "OperationError"}
        /\ drv_log[i].operation_id = rq.operation_id}

\* C11: an OperationInaccessible or OperationError event with the operation id
\* of a started body or call request completes the request as a failure: no
\* request is still waiting after it has read such an event, and a request that
\* has read one has not ended with a success.
C11_FailureEventCompletes ==
    \A r \in Requests :
        (req[r].status = "Started" /\ OwnFailureEvents(req[r], req[r].pos) # {})
            => /\ req[r].pc = "done"
               /\ req[r].res.tag \notin {"Ok", "OkNone"}

(***************************************************************************)
(* Properties of the submit_transaction stream: time and suspension.       *)
(***************************************************************************)
\* C12: the stream imposes no timeout: no poll of it ever panics because time
\* has passed since the transaction was submitted.
C12_NoTimeout == pc # "panicked" /\ last # "panic"

\* The pass reads an event from the follow subscription.
ReadsFollowEvent ==
    /\ follow_ready
    /\ last' = "run"
    /\ \E ev \in FollowEvents :
          /\ SeenBlockOf(ev).kind # "None"
          /\ seen_blocks' = NoteSeenBlock(seen_blocks, SeenBlockOf(ev))

\* C13: a pass of the poll that finds the finalized hash set but not marked
\* finalized, and no event ready on the follow subscription (or the subscription
\* ended), returns Pending; it does not go round the loop again (stated for the
\* passes made in time).
C13_WaitReturnsPending ==
    [][(StreamStep /\ InTime /\ AwaitingFinalized /\ ~ReadsFollowEvent)
          => pc' = "idle" /\ last' = "Pending"]_vars

\* C20: the pass that reads Finalized from tx_progress yields nothing and stays
\* in the poll; from then on no status is read from tx_progress, no poll returns
\* the Pending of tx_progress, the finalized hash stays, and the only item
\* yielded is InFinalizedBlock for the hash once an entry marks it finalized.
C20_NoTxPollAfterFinalized ==
    [][/\ (finalized_hash = NoHash /\ finalized_hash' # NoHash)
              => out' = out /\ pc' = "loop"
       /\ finalized_hash # NoHash
              => /\ mem_log' = mem_log
                 /\ finalized_hash' = finalized_hash
                 /\ ~(pc = "loop" /\ pc' = "idle" /\ last' = "Pending")
                 /\ out' # out
                       => /\ FoundFinalized(seen_blocks, finalized_hash)
                          /\ Yields(InFinalizedBlock(seen_blocks, finalized_hash))]_vars

\* The finalized hash was read, the source ended, and the stream went on to
\* read follow events and hand back InFinalizedBlock after an earlier status.
C20_Witness ==
    /\ finalized_hash # NoHash
    /\ tx_ended
    /\ done
    /\ Len(out) >= 2
    /\ Last(out).tag = "InFinalizedBlock"

(***************************************************************************)
(* Properties of stream_runtime_version.                                   *)
(***************************************************************************)
\* The announcements tracked after the events of `log`, as the claim states
\* them: cleared by each Initialized, recorded by each NewBlock with a runtime.
RECURSIVE Tracked(_)
Tracked(log) ==
    IF log = <<>>
    THEN <<>>
    ELSE LET ev == log[Len(log)]
             before == Tracked(SubSeq(log, 1, Len(log) - 1))
         IN  CASE ev.tag = "Initialized" -> <<>>
               [] ev.tag = "NewBlock" /\ ev.runtime # NoRuntime ->
                     [h \in DOMAIN before \cup {ev.hash} |->
                         IF h = ev.hash THEN ev.runtime ELSE before[h]]
               [] OTHER -> before

\* The runtime of the last hash of `hs` that has one tracked.
LastTracked(tracked, hs) ==
    LET having == {i \in DOMAIN hs : hs[i] \in DOMAIN tracked}
    IN  IF having = {}
        THEN NoRuntime
        ELSE tracked[hs[CHOOSE i \in having : \A j \in having : j <= i]]

\* What event number i of the log is to emit.
ExpectedOutput(log, i) ==
    CASE log[i].tag = "Initialized" -> log[i].runtime
      [] log[i].tag = "Finalized" -> LastTracked(Tracked(SubSeq(log, 1, i - 1)), log[i].hashes)
      [] OTHER -> NoRuntime

\* C14: each Initialized emits the finalized block's runtime if there is one (and
\* clears the tracked announcements), each NewBlock records its runtime and emits
\* nothing, each Finalized emits the tracked runtime of the last of its hashes that
\* has one, and no other event emits anything.
C14_RuntimeTracking ==
    \A i \in DOMAIN rt_log : rt_emit[i] = RuntimeItem(ExpectedOutput(rt_log, i))

\* Event number j of the log announces, with a runtime, the block that decides
\* what the Finalized event number i is to emit: both are of one subscription
\* lifetime, and the block is the last one the Finalized event lists that has an
\* announcement tracked.
AnnouncedFor(log, j, i) ==
    /\ j < i
    /\ log[i].tag = "Finalized"
    /\ log[j].tag = "NewBlock"
    /\ log[j].runtime # NoRuntime
    /\ \A k \in j..i : log[k].tag # "Initialized"
    /\ LET having == {n \in DOMAIN log[i].hashes :
                         log[i].hashes[n] \in DOMAIN Tracked(SubSeq(log, 1, i - 1))}
       IN  /\ having # {}
           /\ log[j].hash = log[i].hashes[CHOOSE n \in having : \A m \in having : m <= n]

\* C28: the runtime a NewBlock event announces for the block that decides what a
\* later Finalized event of the same subscription lifetime emits has been emitted
\* after the announcement and no later than at that Finalized event, whatever
\* other Finalized events came in between.
C28_AnnouncedRuntimeEmitted ==
    \A i, j \in DOMAIN rt_log :
        AnnouncedFor(rt_log, j, i)
            => \E k \in (j + 1)..i : rt_emit[k] = RuntimeItem(rt_log[j].runtime)

(***************************************************************************)
(* Properties of chain_head_follow.                                        *)
(***************************************************************************)
\* C15: a stream of chain_head_follow has yielded exactly the events the driver
\* published after the stream subscribed, up to the place it has read to, each
\* as a success item, in the order of publication, none skipped and none twice;
\* and a stream that has ended has yielded every one of them.
C15_EveryEventInOrder ==
    \A s \in Streams :
        /\ chf[s].sub <= chf[s].pos
        /\ chf[s].pos <= Len(drv_log)
        /\ Len(chf[s].out) = chf[s].pos - chf[s].sub
        /\ \A i \in DOMAIN chf[s].out :
              /\ chf[s].out[i].tag = "Ok"
              /\ chf[s].out[i].value = drv_log[chf[s].sub + i]
        /\ chf[s].pc = "ended" => chf[s].pos = Len(drv_log)

\* Two streams, the second subscribed later than the first, have both read to
\* the end; the first has yielded events the second has not.
C15_Witness ==
    \E s, t \in Streams :
        /\ chf[s].pc = "ended"
        /\ chf[t].pc = "ended"
        /\ chf[s].sub < chf[t].sub
        /\ Len(chf[t].out) >= 1
        /\ Len(chf[s].out) >= 3

(***************************************************************************)
(* Properties of the builder and of block pinning.                         *)
(***************************************************************************)
\* Every announced block whose age has reached max_block_life has had exactly
\* one unpin issued for it.
UnpinnedOnceAtAge ==
    \A b \in 1..announced : Age(rel_block_num, b) >= unpin_life => unpins[b] = 1

\* C16 as stated: a block whose age has reached max_block_life has been unpinned
\* exactly once, and no block was ever unpinned while a BlockRef to it was held.
C16_UnpinnedOnceNeverHeld == built => (UnpinnedOnceAtAge /\ held = {})

\* C16 as amended: a block whose age has reached max_block_life has been unpinned
\* exactly once, whether a BlockRef to it was held or not; only such a block was
\* ever unpinned while a BlockRef to it was held.
C16_UnpinnedOnceHeldOnlyAtAge == built => (UnpinnedOnceAtAge /\ held \subseteq aged)

\* A block was unpinned for its age while held, and another one, not held, because
\* its last BlockRef was dropped.
C16_Witness ==
    /\ unpin_life \in ConfiguredLives
    /\ \E b \in aged \cap held : unpins[b] = 1 /\ block_refs[b] > 0
    /\ \E c \in PinBlocks : unpins[c] = 1 /\ c \notin aged /\ c \notin held

\* C17: at most one unpin is issued for a block, however its BlockRefs are
\* dropped and derived again.
C17_AtMostOneUnpin == \A b \in PinBlocks : unpins[b] <= 1

\* The last BlockRef to a block was dropped, one was derived again and dropped,
\* and the block was then unpinned, not for its age.
C17_Witness ==
    \E b \in rederived : unpins[b] = 1 /\ b \notin aged /\ block_refs[b] = 0

\* C19: with the builder's default max_block_life no block is unpinned because
\* of its age.
C19_DefaultNeverAges == (built /\ ~configured) => aged = {}

\* Built with the default, every block announced and finalized, the oldest one
\* still pinned.
C19_Witness ==
    /\ built
    /\ ~configured
    /\ rel_block_num = announced
    /\ announced >= 3
    /\ 1 \in pinned

(***************************************************************************)
(* Properties of storage_fetch_descendant_keys.                            *)
(***************************************************************************)
\* C18: the keys yielded are those of the items of the operation's batches, batch
\* after batch in the order received, each item once per occurrence; what is not
\* yet yielded is the rest of the last batch; one continue call has been issued
\* per waiting event of the operation; and the sequence has ended exactly when
\* the operation's storage-done event was read, with everything yielded.
C18_BatchesInOrder ==
    /\ Len(st_out) + Len(st_buf) = Len(st_recv)
    /\ \A i \in DOMAIN st_out :
          st_out[i].tag = "Ok" /\ st_out[i].value = st_recv[i].key
    /\ \A i \in DOMAIN st_buf : st_buf[i] = st_recv[Len(st_out) + i]
    /\ st_continues = st_waits
    /\ (st_pc = "done") = st_done_seen
    /\ st_pc = "done" => st_buf = <<>>

\* Two batches with a waiting event between them were read; the sequence ended
\* on storage-done and holds a key twice.
C18_Witness ==
    /\ st_pc = "done"
    /\ st_waits = 1
    /\ Len(st_out) >= 3
    /\ \E i, j \in DOMAIN st_out : i < j /\ st_out[i] = st_out[j]

(***************************************************************************)
(* Properties of the submit_transaction stream: the block mapping.         *)
(***************************************************************************)
\* The step reads an item from tx_progress, or finds it pending or ended.
PollsTx ==
    \/ mem_log' # mem_log
    \/ Len(out') > Len(out) /\ Last(out').tag = "Err"
    \/ pc = "loop" /\ pc' = "idle" /\ last' = "Pending"
    \/ pc = "loop" /\ ~done /\ done' /\ last' = "End"
    \/ last' = "abort"

\* C21: tx_progress is polled only when the follow subscription has no event
\* ready, so no status is translated while a ready event is unprocessed; and
\* every hash a Finalized event lists for the first time is marked finalized by
\* the step that reads the event, keeping the block ref of an entry it had.
C21_DrainsFollowFirst ==
    [][/\ PollsTx => ~follow_ready
       /\ \A h \in fin_seen' \ fin_seen :
             /\ FoundFinalized(seen_blocks', h)
             /\ h \in DOMAIN seen_blocks
                   => seen_blocks'[h].block_ref = seen_blocks[h].block_ref]_vars

\* A status was translated with the block ref of a hash the follow subscription
\* had announced, the hash has since been marked finalized, and the next event
\* is ready while the poll is passing.
C21_Witness ==
    /\ pc = "loop"
    /\ follow_ready
    /\ \E i \in DOMAIN out :
          /\ out[i].tag = "InBestBlock"
          /\ out[i].hash.pinned
          /\ FoundFinalized(seen_blocks, out[i].hash.hash)

\* C22: the step that reads BestChainBlockIncluded with a block yields
\* InBestBlock with the block ref recorded for the hash if seen_blocks has an
\* entry for it, whatever its marker, and else with an unpinned ref of the bare
\* hash; the step that reads BestChainBlockIncluded without a block yields
\* NoLongerInBestBlock.
C22_BestBlockTranslation ==
    [][\A b \in Hashes \cup {NoHash} :
          mem_log' = Append(mem_log, RawBestChainBlockIncluded(b))
              => /\ Len(out') = Len(out) + 1
                 /\ Last(out').tag = IF b = NoHash THEN "NoLongerInBestBlock"
                                                  ELSE "InBestBlock"
                 /\ Last(out').hash =
                        CASE b = NoHash -> [hash |-> NoHash, pinned |-> FALSE]
                          [] b \in DOMAIN seen_blocks -> seen_blocks[b].block_ref
                          [] OTHER -> [hash |-> b, pinned |-> FALSE]]_vars

\* InBestBlock was yielded once with the recorded ref of a hash marked new and
\* once with an unpinned ref.
C22_Witness ==
    \E i, j \in DOMAIN out :
        /\ out[i].tag = "InBestBlock"
        /\ out[i].hash.pinned
        /\ out[i].hash.hash \in DOMAIN seen_blocks
        /\ seen_blocks[out[i].hash.hash].marker = "New"
        /\ out[j].tag = "InBestBlock"
        /\ ~out[j].hash.pinned

\* C23: an InBestBlock or InFinalizedBlock yielded with a recorded block ref
\* never carries one that was recorded before the last Stop event.
C23_NothingFromBeforeStop ==
    [][(/\ Len(out') > Len(out)
        /\ Last(out').tag \in {"InBestBlock", "InFinalizedBlock"}
        /\ Last(out').hash.pinned)
          => Last(out').hash.hash \notin stale]_vars

\* C26: tx_progress is polled only while no finalized hash is set, so the
\* stream never aborts at the branch for a source that ended with one set.
C26_NoEarlyTermination ==
    [][PollsTx => (finalized_hash = NoHash /\ last' # "abort")]_vars

\* The source ended with no finalized hash set and the stream ended after it
\* had yielded a status.
C26_Witness ==
    /\ tx_ended
    /\ done
    /\ last = "End"
    /\ finalized_hash = NoHash
    /\ out # <<>>

\* C27: no step removes an entry of seen_blocks, and an entry marked finalized
\* stays marked finalized.
C27_FinalizedStaysFinalized ==
    [][\A h \in DOMAIN seen_blocks :
          /\ h \in DOMAIN seen_blocks'
          /\ FoundFinalized(seen_blocks, h) => FoundFinalized(seen_blocks', h)]_vars

(***************************************************************************)
(* Properties of the header streams.                                       *)
(***************************************************************************)
\* C24: every header request carries the subscription id of the lifetime that
\* produced the block it asks for.
C24_RequestsCarryOwnSubId ==
    \A i \in DOMAIN hd_reqs : hd_reqs[i].sub_id = SubIdOf(hd_reqs[i].block_ref.life)

\* The finalized hashes an event names: the finalized block of Initialized, the
\* finalized blocks of Finalized in their order, none for any other event.
FinalizedHashesOf(ev) ==
    CASE ev.tag = "Initialized" -> <<ev.hash>>
      [] ev.tag = "Finalized" -> ev.hashes
      [] OTHER -> <<>>

\* The finalized hashes events number from + 1 to `to` of the log name, in order.
RECURSIVE FinalizedHashesIn(_, _, _)
FinalizedHashesIn(log, from, to) ==
    IF to <= from
    THEN <<>>
    ELSE FinalizedHashesIn(log, from, to - 1) \o FinalizedHashesOf(log[to])

\* The items the answered requests are to give: a header item for a header, an
\* error item for a failed lookup, nothing for a missing header.
RECURSIVE ItemsFor(_)
ItemsFor(reqs) ==
    IF reqs = <<>>
    THEN <<>>
    ELSE LET rq == reqs[Len(reqs)]
             before == ItemsFor(SubSeq(reqs, 1, Len(reqs) - 1))
         IN  CASE rq.answer = "Some" -> Append(before, [tag |-> "Ok", hash |-> rq.block_ref.hash])
               [] rq.answer = "Err" -> Append(before, [tag |-> "Err", hash |-> NoHash])
               [] OTHER -> before

\* C30: the stream of finalized block headers looks up the finalized hashes of
\* the events it has read, one request each, in the order of the events and of
\* the hashes within each event, and has yielded one header item per header
\* found and one error item per failed lookup, in that order, and nothing for a
\* hash without a header; it goes on after either.
C30_OneItemPerFinalizedHash ==
    hd_kind = "finalized"
        => /\ Len(hd_reqs) + Len(hd_cur) = Len(FinalizedHashesIn(hd_log, hd_sub, hd_pos))
           /\ \A i \in DOMAIN hd_reqs :
                 hd_reqs[i].block_ref.hash = FinalizedHashesIn(hd_log, hd_sub, hd_pos)[i]
           /\ \A i \in DOMAIN hd_cur :
                 hd_cur[i].hash = FinalizedHashesIn(hd_log, hd_sub, hd_pos)[Len(hd_reqs) + i]
           /\ hd_out = ItemsFor(hd_reqs)

\* The stream of finalized block headers has read an Initialized event and a
\* Finalized event with two hashes; a lookup found no header, a later one
\* failed, and one after that gave a header, which is the last item yielded.
C30_Witness ==
    /\ hd_kind = "finalized"
    /\ \E i, j \in (hd_sub + 1)..hd_pos :
          /\ hd_log[i].tag = "Initialized"
          /\ hd_log[j].tag = "Finalized"
          /\ Len(hd_log[j].hashes) = 2
    /\ \E i, j, k \in DOMAIN hd_reqs :
          /\ i < j
          /\ j < k
          /\ hd_reqs[i].answer = "None"
          /\ hd_reqs[j].answer = "Err"
          /\ hd_reqs[k].answer = "Some"
    /\ Len(hd_out) = 2
    /\ hd_out[1].tag = "Err"
    /\ hd_out[2].tag = "Ok"

(***************************************************************************)
(* Properties of Block::events.                                            *)
(***************************************************************************)
\* C25: the calls of events() on one block cause at most one successful fetch
\* from the node, and none after it: a fetch that gave the events is the last
\* one, and no call is fetching once it has returned.
C25_AtMostOneFetch ==
    \A i \in DOMAIN ev_fetches :
        ev_fetches[i] = "events"
            => /\ i = Len(ev_fetches)
               /\ \A c \in EventsCalls : ev_pc[c] # "fetching"

(***************************************************************************)
(* Properties of the submit_transaction stream: the statuses without a     *)
(* block.                                                                  *)
(***************************************************************************)
\* C32: the step that reads a raw Error or a raw Dropped yields Dropped with the
\* raw status's error as its message, the same client status for both; the step
\* that reads Invalid yields Invalid with the error as its message, Validated
\* yields Validated, and Broadcasted yields Broadcasted with the same num_peers.
C32_ErrorReportedAsDropped ==
    [][\A ev \in {RawError, RawDropped, RawInvalid, RawValidated, RawBroadcasted} :
          mem_log' = Append(mem_log, ev)
              => /\ Len(out') = Len(out) + 1
                 /\ Last(out').tag = IF ev.tag = "Error" THEN "Dropped" ELSE ev.tag
                 /\ Last(out').message = ev.error
                 /\ Last(out').num_peers = ev.num_peers
                 /\ Last(out').hash = NoRef]_vars

\* Broadcasted and then Error were read, and were reported as Broadcasted with
\* its num_peers and as Dropped with the error's text.
C32_Witness ==
    /\ Len(mem_log) = 2
    /\ Len(out) = 2
    /\ mem_log[1] = RawBroadcasted
    /\ mem_log[2] = RawError
    /\ out[1].tag = "Broadcasted"
    /\ out[1].num_peers = RawBroadcasted.num_peers
    /\ out[2].tag = "Dropped"
    /\ out[2].message = RawError.error

(***************************************************************************)
(* Properties of latest_finalized_block_ref.                               *)
(***************************************************************************)
\* The places of the log, after the call subscribed, that hold an Initialized.
InitializedSince(c) ==
    {i \in (lf[c].sub + 1)..Len(hd_log) : hd_log[i].tag = "Initialized"}

\* C31: a call that has returned a block ref returned the one of the finalized
\* block of the first Initialized event published after it subscribed, whatever
\* events came before that one; a call that has failed failed with
\* SubscriptionDropped, and then the events have ended with no Initialized among
\* them; and a call that waits has read no Initialized.
C31_FirstInitializedOrDropped ==
    \A c \in LfCalls :
        /\ lf[c].pc = "done"
              => IF InitializedSince(c) # {}
                 THEN /\ lf[c].pos = First(InitializedSince(c))
                      /\ lf[c].res = OkValue([hash |-> hd_log[lf[c].pos].hash,
                                              life |-> hd_log[lf[c].pos].life])
                 ELSE /\ hd_ended
                      /\ lf[c].res = ErrSubscriptionDropped
        /\ lf[c].pc = "waiting" => \A i \in InitializedSince(c) : lf[c].pos < i

\* One call has passed over a Finalized event and returned the block ref of the
\* Initialized event that came after it; another has failed because the events
\* ended before an Initialized came.
C31_Witness ==
    \E c, d \in LfCalls :
        /\ lf[c].res.tag = "Ok"
        /\ \E i \in (lf[c].sub + 1)..(lf[c].pos - 1) : hd_log[i].tag = "Finalized"
        /\ lf[d].res = ErrSubscriptionDropped

=============================================================================
